---- MODULE Spec2Model ----
(***************************************************************************)
(* DiffLogger (src/libutil/logging-diffs.cc): a Logger decorator that      *)
(* keeps a NixBuildState (activities + messages), and whose printerThread  *)
(* writes the state once as a full JSON value and afterwards as JSON       *)
(* patches (json::diff) against last_sent, to the wrapped prevLogger.      *)
(*                                                                         *)
(* Threads of the model: the printerThread running periodicAction, the     *)
(* threads that call stop() (an explicit stop() and the destructor), and   *)
(* the producer threads that call the Logger overrides.                    *)
(***************************************************************************)
EXTENDS Integers, Sequences, FiniteSets, TLC

\* ------------------------------------------------------------------ bounds

\* Total number of mutator calls (log, logEI, startActivity, stopActivity,
\* result) made over the lifetime of the logger.
MaxCalls == 2

\* Number of mutator calls made in the runs checked for progress under fair
\* scheduling (LiveSpec).
MaxLiveCalls == 1

\* Activity ids used by the producers are 1..MaxId.
MaxId == 2

\* ------------------------------------------------------------------ inputs

ActivityIds == 1..MaxId

\* Threads calling stop(): an explicit caller and the destructor's caller.
Stoppers == {"s1", "s2"}

\* Producer threads.
Mutators == {"m1", "m2"}

\* Logger::Field, int or string (Field::tInt / Field::tString).
IntField(n) == [type |-> "tInt", i |-> n, s |-> ""]
StrField(x) == [type |-> "tString", i |-> 0, s |-> x]

\* The (type, text, fields, parent) arguments producers pass to startActivity.
\* The second one names a parent that is never started.
StartArgs ==
    { [type |-> 105, text |-> "building foo", fields |-> <<>>, parent |-> 0],
      [type |-> 101, text |-> "copying", fields |-> <<StrField("x")>>, parent |-> 99] }

\* The fields producers pass to result().
ResultFields == { <<IntField(1)>> }

\* The ResultType values producers pass to result().
ResultTypes == { 101 }

\* Values an uninitialised int NixMessage::level can hold (log() never sets it).
Levels == { 0, 3 }

\* Texts passed to log().
Texts == { "late" }

\* AbstractPos of an error or trace, or NoPos for a null shared_ptr.
NoPos == [present |-> FALSE, line |-> 0, column |-> 0, file |-> ""]
Pos(l, c, f) == [present |-> TRUE, line |-> l, column |-> c, file |-> f]

\* ErrorInfo values passed to logEI(): (level, msg, errPos, traces).
ErrorInfos ==
    { [level |-> 0, msg |-> "undefined variable", errPos |-> Pos(1, 2, "a.nix"),
       traces |-> <<>>],
      [level |-> 1, msg |-> "assertion failed", errPos |-> NoPos,
       traces |-> << [hint |-> "while evaluating", pos |-> Pos(3, 4, "b.nix")],
                     [hint |-> "while calling", pos |-> NoPos] >>] }

\* ------------------------------------------------------------------ JSON values

\* nlohmann::json values, tagged with their value_t.
JNull == [t |-> "null", v |-> 0]
JInt(n) == [t |-> "int", v |-> n]
JStr(x) == [t |-> "str", v |-> x]
JBool(b) == [t |-> "bool", v |-> b]
JArr(seq) == [t |-> "arr", v |-> seq]
JObj(f) == [t |-> "obj", v |-> f]

\* The result of a patch that cannot be applied (json::patch throws).
Failed == [t |-> "error", v |-> 0]

\* f with the pair k -> x added or replaced; f without the key k.
Put(f, k, x) == [j \in (DOMAIN f) \cup {k} |-> IF j = k THEN x ELSE f[j]]
Drop(f, k) == [j \in (DOMAIN f) \ {k} |-> f[j]]

\* The keys of the objects this logger builds, in the order of
\* std::map<std::string, json> (byte-wise): an object is iterated in this order.
KeyOrder ==
    [i \in 1..MaxId |-> ToString(i)] \o
    << "activities", "column", "fields", "file", "is_complete", "level", "line",
       "messages", "msg", "raw_msg", "text", "trace", "type" >>

SortedKeys(S) == SelectSeq(KeyOrder, LAMBDA k : k \in S)

\* The sequence s with its elements in reverse order.
Reverse(s) == [i \in 1..Len(s) |-> s[Len(s) + 1 - i]]

\* ------------------------------------------------------------------ to_json

\* std::optional<T>.
None == [has |-> FALSE, v |-> 0]
NoneStr == [has |-> FALSE, v |-> ""]
NoneJson == [has |-> FALSE, v |-> JNull]
Some(x) == [has |-> TRUE, v |-> x]

\* A default-constructed NixMessage whose level holds lvl.
NixMessage(lvl) ==
    [level |-> lvl, line |-> None, column |-> None, file |-> NoneStr,
     trace |-> NoneJson, msg |-> "", raw_msg |-> ""]

\* add_pos_to_message: line, column and file are all set or all reset.
add_pos_to_message(msg, pos) ==
    IF pos.present
    THEN [msg EXCEPT !.line = Some(pos.line), !.column = Some(pos.column),
                     !.file = Some(pos.file)]
    ELSE [msg EXCEPT !.line = None, !.column = None, !.file = NoneStr]

\* pos_to_json: the three keys are always present, null for a null pos.
pos_to_json(obj, pos) ==
    IF pos.present
    THEN Put(Put(Put(obj, "line", JInt(pos.line)), "column", JInt(pos.column)),
             "file", JStr(pos.file))
    ELSE Put(Put(Put(obj, "line", JNull), "column", JNull), "file", JNull)

\* addFields: no "fields" key at all for an empty vector.
addFields(obj, fields) ==
    IF fields = <<>> THEN obj
    ELSE Put(obj, "fields",
             JArr([i \in 1..Len(fields) |->
                     IF fields[i].type = "tInt" THEN JInt(fields[i].i)
                     ELSE JStr(fields[i].s)]))

\* to_json(json &, const NixMessage &)
to_json_NixMessage(m) ==
    LET j0 == [k \in {"level"} |-> JInt(m.level)]
        j1 == IF m.line.has THEN Put(j0, "line", JInt(m.line.v)) ELSE j0
        j2 == IF m.column.has THEN Put(j1, "column", JInt(m.column.v)) ELSE j1
        j3 == IF m.file.has THEN Put(j2, "file", JStr(m.file.v)) ELSE j2
        j4 == IF m.trace.has THEN Put(j3, "trace", m.trace.v) ELSE j3
        j5 == IF m.msg # "" THEN Put(j4, "msg", JStr(m.msg)) ELSE j4
        j6 == IF m.raw_msg # "" THEN Put(j5, "raw_msg", JStr(m.raw_msg)) ELSE j5
    IN  JObj(j6)

\* to_json(json &, const ActivityState &): the parent is not rendered.
to_json_ActivityState(as) ==
    JObj(addFields([k \in {"is_complete", "type", "text"} |->
                      CASE k = "is_complete" -> JBool(as.is_complete)
                        [] k = "type" -> JInt(as.type)
                        [] k = "text" -> JStr(as.text)],
                   as.fields))

\* to_json(json &, const NixBuildState &): activities keyed by std::to_string(id).
to_json_NixBuildState(s) ==
    LET ids == DOMAIN s.activities
        keys == { ToString(id) : id \in ids }
        idOf(k) == CHOOSE id \in ids : ToString(id) = k
    IN  JObj([k \in {"messages", "activities"} |->
                IF k = "messages"
                THEN JArr([i \in 1..Len(s.messages) |-> to_json_NixMessage(s.messages[i])])
                ELSE JObj([a \in keys |-> to_json_ActivityState(s.activities[idOf(a)])])])

\* ------------------------------------------------------------------ json::diff

\* One operation of a JSON patch; the path is the sequence of its reference tokens.
OpAdd(path, val) == [op |-> "add", path |-> path, value |-> val]
OpRemove(path) == [op |-> "remove", path |-> path, value |-> JNull]
OpReplace(path, val) == [op |-> "replace", path |-> path, value |-> val]

Min(a, b) == IF a < b THEN a ELSE b

RECURSIVE json_diff(_, _, _)
RECURSIVE diff_common(_, _, _, _, _)
RECURSIVE diff_keys(_, _, _, _)

\* Array, first pass: the diffs of the elements both arrays have, i = from..n-1.
diff_common(src, tgt, path, from, n) ==
    IF from >= n THEN <<>>
    ELSE json_diff(src[from + 1], tgt[from + 1], Append(path, ToString(from)))
         \o diff_common(src, tgt, path, from + 1, n)

\* Object, first pass: the keys of the source, in key order.
diff_keys(src, tgt, path, keys) ==
    IF keys = <<>> THEN <<>>
    ELSE LET k == Head(keys)
             here == IF k \in DOMAIN tgt
                     THEN json_diff(src[k], tgt[k], Append(path, k))
                     ELSE << OpRemove(Append(path, k)) >>
         IN  here \o diff_keys(src, tgt, path, Tail(keys))

\* json::diff(source, target, path): the patch that turns source into target.
json_diff(source, target, path) ==
    IF source = target THEN <<>>
    ELSE IF source.t # target.t THEN << OpReplace(path, target) >>
    ELSE IF source.t = "arr" THEN
        LET n == Min(Len(source.v), Len(target.v))
            \* the removals are inserted so that the highest index comes first
            removes == [i \in 1..(Len(source.v) - n) |->
                          OpRemove(Append(path, ToString(Len(source.v) - i)))]
            adds == [i \in 1..(Len(target.v) - n) |->
                       OpAdd(Append(path, "-"), target.v[n + i])]
        IN  diff_common(source.v, target.v, path, 0, n) \o removes \o adds
    ELSE IF source.t = "obj" THEN
        LET added == SortedKeys(DOMAIN target.v \ DOMAIN source.v)
        IN  diff_keys(source.v, target.v, path, SortedKeys(DOMAIN source.v))
            \o [i \in 1..Len(added) |-> OpAdd(Append(path, added[i]), target.v[added[i]])]
    ELSE << OpReplace(path, target) >>

\* ------------------------------------------------------------------ json::patch

\* The array index a reference token names, or -1 when it names none below n.
ArrayIndex(tok, n) ==
    IF \E i \in 0..n : ToString(i) = tok
    THEN CHOOSE i \in 0..n : ToString(i) = tok
    ELSE -1

\* s with x inserted before its element at 0-based index i.
InsertAt(s, i, x) ==
    [j \in 1..(Len(s) + 1) |-> IF j <= i THEN s[j] ELSE IF j = i + 1 THEN x ELSE s[j - 1]]

RemoveAt(s, i) == [j \in 1..(Len(s) - 1) |-> IF j <= i THEN s[j] ELSE s[j + 1]]

RECURSIVE apply_op(_, _, _)

\* One operation applied at `path` below doc (RFC 6902); Failed when the path
\* does not resolve.
apply_op(doc, path, o) ==
    IF path = <<>> THEN (IF o.op = "remove" THEN Failed ELSE o.value)
    ELSE
    LET tok == Head(path)
        rest == Tail(path)
    IN  IF doc.t = "obj" THEN
            IF rest = <<>> THEN
                CASE o.op = "add" -> JObj(Put(doc.v, tok, o.value))
                  [] o.op = "replace" ->
                        IF tok \in DOMAIN doc.v THEN JObj(Put(doc.v, tok, o.value)) ELSE Failed
                  [] OTHER ->
                        IF tok \in DOMAIN doc.v THEN JObj(Drop(doc.v, tok)) ELSE Failed
            ELSE IF tok \in DOMAIN doc.v THEN
                LET sub == apply_op(doc.v[tok], rest, o)
                IN  IF sub = Failed THEN Failed ELSE JObj(Put(doc.v, tok, sub))
            ELSE Failed
        ELSE IF doc.t = "arr" THEN
            LET n == Len(doc.v)
                i == ArrayIndex(tok, n)
            IN  IF rest = <<>> THEN
                    CASE o.op = "add" ->
                            IF tok = "-" THEN JArr(Append(doc.v, o.value))
                            ELSE IF i >= 0 THEN JArr(InsertAt(doc.v, i, o.value))
                            ELSE Failed
                      [] o.op = "replace" ->
                            IF i >= 0 /\ i < n
                            THEN JArr([doc.v EXCEPT ![i + 1] = o.value]) ELSE Failed
                      [] OTHER ->
                            IF i >= 0 /\ i < n THEN JArr(RemoveAt(doc.v, i)) ELSE Failed
                ELSE IF i >= 0 /\ i < n THEN
                    LET sub == apply_op(doc.v[i + 1], rest, o)
                    IN  IF sub = Failed THEN Failed
                        ELSE JArr([doc.v EXCEPT ![i + 1] = sub])
                ELSE Failed
        ELSE Failed

RECURSIVE json_patch(_, _)

\* json::patch: the operations applied in order; a failing one fails the patch.
json_patch(doc, ops) ==
    IF doc = Failed THEN Failed
    ELSE IF ops = <<>> THEN doc
    ELSE json_patch(apply_op(doc, Head(ops).path, Head(ops)), Tail(ops))

\* ------------------------------------------------------------------ frames

\* What write() hands to prevLogger.log(lvlError, ...): the dump of a full
\* value (the baseline) or of a patch.
ValueFrame(j) == [kind |-> "value", value |-> j, ops |-> <<>>]
PatchFrame(ops) == [kind |-> "patch", value |-> JNull, ops |-> ops]

RECURSIVE ReplayFrom(_, _, _)

ReplayFrom(doc, frames, i) ==
    IF i > Len(frames) THEN doc
    ELSE IF frames[i].kind # "patch" THEN Failed
    ELSE ReplayFrom(json_patch(doc, frames[i].ops), frames, i + 1)

\* The consumer's replica: the first frame taken as a full value, every later
\* frame applied to it as a patch, in arrival order.
Replay(frames) ==
    IF frames = <<>> THEN JNull
    ELSE IF frames[1].kind # "value" THEN Failed
    ELSE ReplayFrom(frames[1].value, frames, 2)

\* ------------------------------------------------------------------ state

VARIABLES
    state,               \* NixBuildState: [activities, messages]
    last_sent,           \* json last_sent, null until the baseline is recorded
    lock,                \* std::mutex lock: "free" or the thread that holds it
    exitPeriodicAction,  \* the stop flag
    exited,              \* set by stop() after its final flush
    joined,              \* printerThread has been joined (it is no longer joinable)
    sink,                \* the lines handed to prevLogger.log, in order
    sentBy,              \* who handed each line of sink to prevLogger: "printer", "stop", "mutator"
    stdout,              \* the lines written by Logger::writeToStdout
    pubPc,               \* where printerThread is in periodicAction
    stopPc,              \* where each caller of stop() is
    mut,                 \* the call each producer thread is in
    calls,               \* number of mutator calls made so far
    joins,               \* number of calls of printerThread.join()
    stopFlushes,         \* number of sendLatestIfNecessary() calls made by stop()
    hist,                \* the handler calls that have returned, in order, each with
                         \* the number of frames sent and whether last_sent was set
    nap,                 \* the loop's sleep since the last return: "none", "begun", "full"
    thrown               \* the threads out of which a failure of prevLogger.log propagated

vars == << state, last_sent, lock, exitPeriodicAction, exited, joined, sink, sentBy, stdout,
           pubPc, stopPc, mut, calls, joins, stopFlushes, hist, nap, thrown >>

\* ActivityState(type, text, fields, parent): the constructor leaves is_complete
\* uninitialised, so it holds whatever value c the memory held.
ActivityState(args, c) ==
    [is_complete |-> c, type |-> args.type, text |-> args.text,
     fields |-> args.fields, parent |-> args.parent]

NoActivity == ActivityState([type |-> 0, text |-> "", fields |-> <<>>, parent |-> 0], FALSE)

\* A producer thread outside any call, and inside one (holding the lock).
Call(op, act, as, msg, fields, type, warn) ==
    [op |-> op, act |-> act, as |-> as, msg |-> msg, fields |-> fields,
     type |-> type, warn |-> warn, stopped |-> exited]

Idle ==
    [op |-> "idle", act |-> 0, as |-> NoActivity, msg |-> NixMessage(0), fields |-> <<>>,
     type |-> 0, warn |-> "", stopped |-> FALSE]

\* showErrorInfo(oss, ei, showTrace): the formatted text of an error.
showErrorInfo(ei, showTrace) ==
    ToString(<< "error", ei.msg, IF showTrace THEN Len(ei.traces) ELSE 0 >>)

\* The NixMessage logEI builds from an ErrorInfo before it takes the lock.
ErrorMessage(ei, showTrace) ==
    LET m0 == [NixMessage(ei.level) EXCEPT !.msg = showErrorInfo(ei, showTrace),
                                           !.raw_msg = ei.msg]
        m1 == add_pos_to_message(m0, ei.errPos)
        rev == Reverse(ei.traces)
        traces == JArr([i \in 1..Len(rev) |->
                          JObj(pos_to_json([k \in {"raw_msg"} |-> JStr(rev[i].hint)],
                                           rev[i].pos))])
    IN  IF showTrace /\ ei.traces # <<>> THEN [m1 EXCEPT !.trace = Some(traces)] ELSE m1

\* "Failed to look up result of type " + type: the literal's address moved by
\* type chars. The literal has 33 chars and every offset used lies beyond it, so
\* the text is whatever memory follows the literal.
WarningTexts == { "", "<bytes after the literal>" }

\* DiffLogger(prevLogger): last_sent(nullptr), both flags false, the thread started.
Init ==
    /\ state = [activities |-> <<>>, messages |-> <<>>]
    /\ last_sent = JNull
    /\ lock = "free"
    /\ exitPeriodicAction = FALSE
    /\ exited = FALSE
    /\ joined = FALSE
    /\ sink = <<>>
    /\ sentBy = <<>>
    /\ stdout = <<>>
    /\ pubPc = "write"
    /\ stopPc = [s \in Stoppers |-> "idle"]
    /\ mut = [m \in Mutators |-> Idle]
    /\ calls = 0
    /\ joins = 0
    /\ stopFlushes = 0
    /\ hist = <<>>
    /\ nap = "none"
    /\ thrown = {}

\* ------------------------------------------------------------------ transmission

\* write(json): the dump goes to prevLogger.log(lvlError, ...).
\* The caller is the holder of the lock, or printerThread at its unlocked
\* first write (pubPc = "write" until that write is done).
write(frame) ==
    /\ sink' = Append(sink, frame)
    /\ sentBy' = Append(sentBy, CASE pubPc = "write" -> "printer"
                                  [] lock \in Stoppers -> "stop"
                                  [] lock \in Mutators -> "mutator"
                                  [] OTHER -> "printer")

\* Faulty variant: the comparison with last_sent is left out, every call transmits.
sendLatestUnconditionally(st) ==
    /\ write(PatchFrame(json_diff(last_sent, to_json_NixBuildState(st), <<>>)))
    /\ last_sent' = to_json_NixBuildState(st)

\* Faulty variant: the patch is sent but last_sent is not advanced (line 143 missing).
sendLatestWithoutRecord(st) ==
    IF last_sent = to_json_NixBuildState(st)
    THEN UNCHANGED << sink, sentBy, last_sent >>
    ELSE /\ write(PatchFrame(json_diff(last_sent, to_json_NixBuildState(st), <<>>)))
         /\ UNCHANGED last_sent

\* sendLatestIfNecessaryUnlocked, with st the state it reads.
sendLatestIfNecessaryUnlocked(st) ==
    IF last_sent = to_json_NixBuildState(st)
    THEN UNCHANGED << sink, sentBy, last_sent >>
    ELSE /\ write(PatchFrame(json_diff(last_sent, to_json_NixBuildState(st), <<>>)))
         /\ last_sent' = to_json_NixBuildState(st)

\* Faulty variant: log and logEI never flush, whatever exited says.
FlushNever(st) == UNCHANGED << sink, sentBy, last_sent >>

\* Faulty variant: log and logEI flush without looking at exited.
FlushAlways(st) == sendLatestIfNecessaryUnlocked(st)

\* Faulty variant: log and logEI flush as soon as a stop was requested.
FlushIfStopRequested(st) ==
    IF exitPeriodicAction THEN sendLatestIfNecessaryUnlocked(st)
    ELSE UNCHANGED << sink, sentBy, last_sent >>

\* `if (this->exited) sendLatestIfNecessaryUnlocked();` at the end of log and logEI.
FlushIfExited(st) ==
    IF exited THEN sendLatestIfNecessaryUnlocked(st) ELSE UNCHANGED << sink, sentBy, last_sent >>

\* std::lock_guard<std::mutex> guard(lock): blocks until the mutex is free.
Acquire(thread) == lock = "free" /\ lock' = thread

\* ------------------------------------------------------------------ printerThread

\* periodicAction, line 122: write(this->state), without the lock. The read
\* races with the handlers; it is taken to see the state before or after a
\* whole handler body (both orders are steps of the model).
PeriodicWrite ==
    /\ pubPc = "write"
    /\ write(ValueFrame(to_json_NixBuildState(state)))
    /\ pubPc' = "assign"
    /\ UNCHANGED << state, last_sent, lock, exitPeriodicAction, exited, joined, stdout,
                    stopPc, mut, calls, joins, stopFlushes,
                    hist, nap, thrown >>

\* Faulty variant: line 123 is missing, last_sent stays null after the baseline.
PeriodicAssignSkipped ==
    /\ pubPc = "assign"
    /\ pubPc' = "check"
    /\ UNCHANGED << state, last_sent, lock, exitPeriodicAction, exited, joined, sink, sentBy,
                    stdout, stopPc, mut, calls, joins, stopFlushes,
                    hist, nap, thrown >>

\* periodicAction, line 123: last_sent = state, without the lock.
PeriodicAssign ==
    /\ pubPc = "assign"
    /\ last_sent' = to_json_NixBuildState(state)
    /\ pubPc' = "check"
    /\ UNCHANGED << state, lock, exitPeriodicAction, exited, joined, sink, sentBy, stdout,
                    stopPc, mut, calls, joins, stopFlushes,
                    hist, nap, thrown >>

\* periodicAction, line 126: leave the loop once the stop flag is set.
PeriodicCheck ==
    /\ pubPc = "check"
    /\ pubPc' = IF exitPeriodicAction THEN "done" ELSE "lock"
    /\ UNCHANGED << state, last_sent, lock, exitPeriodicAction, exited, joined, sink, sentBy,
                    stdout, stopPc, mut, calls, joins, stopFlushes,
                    hist, nap, thrown >>

\* sendLatestIfNecessary called from the loop: take the lock ...
PeriodicLock ==
    /\ pubPc = "lock"
    /\ Acquire("printer")
    /\ pubPc' = "send"
    /\ UNCHANGED << state, last_sent, exitPeriodicAction, exited, joined, sink, sentBy, stdout,
                    stopPc, mut, calls, joins, stopFlushes,
                    hist, nap, thrown >>

\* ... send under it, and release it.
PeriodicSend ==
    /\ pubPc = "send"
    /\ sendLatestIfNecessaryUnlocked(state)
    /\ lock' = "free"
    /\ pubPc' = "sleep"
    /\ nap' = IF hist # <<>> /\ nap = "none" THEN "begun" ELSE nap
    /\ UNCHANGED << state, exitPeriodicAction, exited, joined, stdout, stopPc, mut,
                    calls, joins, stopFlushes,
                    hist, thrown >>

\* periodicAction, line 130: sleep_for(300 ms), then the next iteration.
PeriodicSleep ==
    /\ pubPc = "sleep"
    /\ pubPc' = "check"
    /\ nap' = IF nap = "begun" THEN "full" ELSE nap
    /\ UNCHANGED << state, last_sent, lock, exitPeriodicAction, exited, joined, sink, sentBy,
                    stdout, stopPc, mut, calls, joins, stopFlushes,
                    hist, thrown >>

\* ------------------------------------------------------------------ stop()

\* stop(), line 112 (also reached from ~DiffLogger): return if the flag is set.
StopCheck(s) ==
    /\ stopPc[s] = "idle"
    /\ stopPc' = [stopPc EXCEPT ![s] = IF exitPeriodicAction THEN "returned" ELSE "set"]
    /\ UNCHANGED << state, last_sent, lock, exitPeriodicAction, exited, joined, sink, sentBy,
                    stdout, pubPc, mut, calls, joins, stopFlushes,
                    hist, nap, thrown >>

\* stop(), line 114.
StopSet(s) ==
    /\ stopPc[s] = "set"
    /\ exitPeriodicAction' = TRUE
    /\ stopPc' = [stopPc EXCEPT ![s] = "join"]
    /\ UNCHANGED << state, last_sent, lock, exited, joined, sink, sentBy, stdout, pubPc, mut,
                    calls, joins, stopFlushes,
                    hist, nap, thrown >>

\* Faulty variant: stop() goes on without waiting for printerThread to finish.
StopWithoutJoin(s) ==
    /\ stopPc[s] = "join"
    /\ joins' = joins + 1
    /\ joined' = TRUE
    /\ stopPc' = [stopPc EXCEPT ![s] = "lock"]
    /\ UNCHANGED << state, last_sent, lock, exitPeriodicAction, exited, sink, sentBy,
                    stdout, pubPc, mut, calls, stopFlushes,
                    hist, nap, thrown >>

\* stop(), line 115: printerThread.join() returns once periodicAction has returned.
\* A second join() of the same std::thread is an error: it throws
\* std::system_error, or (two joins racing on the unsynchronised std::thread)
\* returns as the first one did.
StopJoin(s) ==
    /\ stopPc[s] = "join"
    /\ pubPc = "done"
    /\ joins' = joins + 1
    /\ joined' = TRUE
    /\ \/ stopPc' = [stopPc EXCEPT ![s] = "lock"]
       \/ joined /\ stopPc' = [stopPc EXCEPT ![s] = "threw"]
    /\ UNCHANGED << state, last_sent, lock, exitPeriodicAction, exited, sink, sentBy, stdout,
                    pubPc, mut, calls, stopFlushes,
                    hist, nap, thrown >>

\* stop(), line 116: sendLatestIfNecessary() takes the lock ...
StopLock(s) ==
    /\ stopPc[s] = "lock"
    /\ Acquire(s)
    /\ stopPc' = [stopPc EXCEPT ![s] = "send"]
    /\ UNCHANGED << state, last_sent, exitPeriodicAction, exited, joined, sink, sentBy, stdout,
                    pubPc, mut, calls, joins, stopFlushes,
                    hist, nap, thrown >>

\* ... sends under it, and releases it.
StopSend(s) ==
    /\ stopPc[s] = "send"
    /\ sendLatestIfNecessaryUnlocked(state)
    /\ lock' = "free"
    /\ stopFlushes' = stopFlushes + 1
    /\ stopPc' = [stopPc EXCEPT ![s] = "mark"]
    /\ UNCHANGED << state, exitPeriodicAction, exited, joined, stdout, pubPc, mut,
                    calls, joins,
                    hist, nap, thrown >>

\* Faulty variant: stop() clears the stop flag again when it marks the end.
StopMarkResets(s) ==
    /\ stopPc[s] = "mark"
    /\ exited' = TRUE
    /\ exitPeriodicAction' = FALSE
    /\ stopPc' = [stopPc EXCEPT ![s] = "returned"]
    /\ UNCHANGED << state, last_sent, lock, joined, sink, sentBy, stdout,
                    pubPc, mut, calls, joins, stopFlushes,
                    hist, nap, thrown >>

\* stop(), line 117: exited = true, and stop() returns.
StopMark(s) ==
    /\ stopPc[s] = "mark"
    /\ exited' = TRUE
    /\ stopPc' = [stopPc EXCEPT ![s] = "returned"]
    /\ UNCHANGED << state, last_sent, lock, exitPeriodicAction, joined, sink, sentBy, stdout,
                    pubPc, mut, calls, joins, stopFlushes,
                    hist, nap, thrown >>

\* ------------------------------------------------------------------ mutators

\* A producer thread enters a handler: the arguments are built and the
\* lock_guard at the top of the handler takes the lock.
Enter(m, call) ==
    /\ mut[m] = Idle
    /\ calls < MaxCalls
    /\ Acquire(m)
    /\ mut' = [mut EXCEPT ![m] = call]
    /\ calls' = calls + 1
    /\ UNCHANGED << state, last_sent, exitPeriodicAction, exited, joined, sink, sentBy, stdout,
                    pubPc, stopPc, joins, stopFlushes,
                    hist, nap, thrown >>

\* The handler returns: the lock_guard releases the lock.
Leave(m) ==
    /\ lock' = "free"
    /\ mut' = [mut EXCEPT ![m] = Idle]
    /\ hist' = Append(hist, [op |-> mut[m].op, act |-> mut[m].act, sent |-> Len(sink),
                             nap |-> nap, based |-> last_sent # JNull])
    /\ nap' = "none"

\* log(lvl, fs), lines 157-159: msg.msg = fs.s, the level left as it was.
EnterLog(m) ==
    \E lvl \in Levels, text \in Texts :
        Enter(m, Call("log", 0, NoActivity, [NixMessage(lvl) EXCEPT !.msg = text],
                      <<>>, 0, ""))

\* logEI(ei), lines 168-191.
EnterLogEI(m) ==
    \E ei \in ErrorInfos, showTrace \in BOOLEAN :
        Enter(m, Call("logEI", 0, NoActivity, ErrorMessage(ei, showTrace), <<>>, 0, ""))

\* startActivity, lines 201-202.
EnterStartActivity(m) ==
    \E act \in ActivityIds, args \in StartArgs, c \in BOOLEAN :
        Enter(m, Call("startActivity", act, ActivityState(args, c), NixMessage(0),
                      <<>>, 0, ""))

\* stopActivity, line 208.
EnterStopActivity(m) ==
    \E act \in ActivityIds :
        Enter(m, Call("stopActivity", act, NoActivity, NixMessage(0), <<>>, 0, ""))

\* result, line 215.
EnterResult(m) ==
    \E act \in ActivityIds, type \in ResultTypes, fields \in ResultFields,
       warn \in WarningTexts :
        Enter(m, Call("result", act, NoActivity, NixMessage(0), fields, type, warn))

\* Faulty variant: the message is put at the front of the list.
push_front(st, msg) == [st EXCEPT !.messages = <<msg>> \o @]

\* this->state.messages.push_back(msg)
push_back(st, msg) == [st EXCEPT !.messages = Append(@, msg)]

\* Faulty variant: activities.insert_or_assign(act, as), which replaces a present entry.
insert_or_assign(st, act, as) == [st EXCEPT !.activities = Put(@, act, as)]

\* this->state.activities.insert(pair(act, as)): a present key is left as it is.
insert(st, act, as) ==
    IF act \in DOMAIN st.activities THEN st
    ELSE [st EXCEPT !.activities = Put(@, act, as)]

\* Faulty variant: activities[act].is_complete = true, which creates a missing entry.
set_complete_subscript(st, act) ==
    IF act \in DOMAIN st.activities
    THEN [st EXCEPT !.activities[act].is_complete = TRUE]
    ELSE [st EXCEPT !.activities = Put(@, act, [NoActivity EXCEPT !.is_complete = TRUE])]

\* this->state.activities.at(act).is_complete = true, out_of_range swallowed.
set_complete(st, act) ==
    IF act \in DOMAIN st.activities
    THEN [st EXCEPT !.activities[act].is_complete = TRUE]
    ELSE st

\* this->state.activities.at(act).fields = fields, when act is present.
set_fields(st, act, fields) ==
    IF act \in DOMAIN st.activities
    THEN [st EXCEPT !.activities[act].fields = fields]
    ELSE st

\* log(lvl, fs), lines 160-164.
log(m) ==
    /\ mut[m].op = "log"
    /\ state' = push_back(state, mut[m].msg)
    /\ FlushIfExited(state')
    /\ Leave(m)
    /\ UNCHANGED << exitPeriodicAction, exited, joined, stdout, pubPc, stopPc, calls,
                    joins, stopFlushes,
                    thrown >>

\* logEI(ei), lines 192-196.
logEI(m) ==
    /\ mut[m].op = "logEI"
    /\ state' = push_back(state, mut[m].msg)
    /\ FlushIfExited(state')
    /\ Leave(m)
    /\ UNCHANGED << exitPeriodicAction, exited, joined, stdout, pubPc, stopPc, calls,
                    joins, stopFlushes,
                    thrown >>

\* startActivity, lines 203-204.
startActivity(m) ==
    /\ mut[m].op = "startActivity"
    /\ state' = insert(state, mut[m].act, mut[m].as)
    /\ Leave(m)
    /\ UNCHANGED << last_sent, exitPeriodicAction, exited, joined, sink, sentBy, stdout, pubPc,
                    stopPc, calls, joins, stopFlushes,
                    thrown >>

\* stopActivity, lines 209-211.
stopActivity(m) ==
    /\ mut[m].op = "stopActivity"
    /\ state' = set_complete(state, mut[m].act)
    /\ Leave(m)
    /\ UNCHANGED << last_sent, exitPeriodicAction, exited, joined, sink, sentBy, stdout, pubPc,
                    stopPc, calls, joins, stopFlushes,
                    thrown >>

\* result, lines 216-220: on an absent id the warning goes to
\* Logger::writeToStdout, the base class's own output, not to prevLogger.
result(m) ==
    /\ mut[m].op = "result"
    /\ state' = set_fields(state, mut[m].act, mut[m].fields)
    /\ stdout' = IF mut[m].act \in DOMAIN state.activities THEN stdout
                 ELSE Append(stdout, mut[m].warn)
    /\ Leave(m)
    /\ UNCHANGED << last_sent, exitPeriodicAction, exited, joined, sink, sentBy, pubPc, stopPc,
                    calls, joins, stopFlushes,
                    thrown >>

\* ------------------------------------------------------------------ specification

Next ==
    \/ PeriodicWrite
    \/ PeriodicAssign
    \/ PeriodicCheck
    \/ PeriodicLock
    \/ PeriodicSend
    \/ PeriodicSleep
    \/ \E s \in Stoppers : StopCheck(s)
    \/ \E s \in Stoppers : StopSet(s)
    \/ \E s \in Stoppers : StopJoin(s)
    \/ \E s \in Stoppers : StopLock(s)
    \/ \E s \in Stoppers : StopSend(s)
    \/ \E s \in Stoppers : StopMark(s)
    \/ \E m \in Mutators : EnterLog(m)
    \/ \E m \in Mutators : EnterLogEI(m)
    \/ \E m \in Mutators : EnterStartActivity(m)
    \/ \E m \in Mutators : EnterStopActivity(m)
    \/ \E m \in Mutators : EnterResult(m)
    \/ \E m \in Mutators : log(m)
    \/ \E m \in Mutators : logEI(m)
    \/ \E m \in Mutators : startActivity(m)
    \/ \E m \in Mutators : stopActivity(m)
    \/ \E m \in Mutators : result(m)

Spec == Init /\ [][Next]_vars

\* ------------------------------------------------------------------ a failing sink

\* Faulty variant: last_sent is assigned before the write, so a failed write
\* leaves it advanced.
sendLatestFailsRecorded(st) ==
    /\ last_sent # to_json_NixBuildState(st)
    /\ last_sent' = to_json_NixBuildState(st)
    /\ UNCHANGED << sink, sentBy >>

\* sendLatestIfNecessaryUnlocked when prevLogger.log throws inside write (line
\* 142): nothing reaches the sink and line 143 is not executed.
sendLatestFails(st) ==
    /\ last_sent # to_json_NixBuildState(st)
    /\ UNCHANGED << sink, sentBy, last_sent >>

\* periodicAction, line 122, when the write throws: the exception leaves
\* periodicAction and the thread function, which ends the process
\* (std::terminate).
PeriodicWriteFails ==
    /\ pubPc = "write"
    /\ pubPc' = "threw"
    /\ thrown' = thrown \cup {"printer"}
    /\ UNCHANGED << state, last_sent, lock, exitPeriodicAction, exited, joined, sink, sentBy,
                    stdout, stopPc, mut, calls, joins, stopFlushes, hist, nap >>

\* periodicAction, line 128, when the write throws: the lock_guard of
\* sendLatestIfNecessary releases the lock and the exception ends the process.
PeriodicSendFails ==
    /\ pubPc = "send"
    /\ sendLatestFails(state)
    /\ lock' = "free"
    /\ pubPc' = "threw"
    /\ thrown' = thrown \cup {"printer"}
    /\ UNCHANGED << state, exitPeriodicAction, exited, joined, stdout, stopPc, mut,
                    calls, joins, stopFlushes, hist, nap >>

\* stop(), line 116, when the write throws: the lock is released, the
\* exception leaves stop() and line 117 is not executed.
StopSendFails(s) ==
    /\ pubPc # "threw"
    /\ stopPc[s] = "send"
    /\ sendLatestFails(state)
    /\ lock' = "free"
    /\ stopFlushes' = stopFlushes + 1
    /\ stopPc' = [stopPc EXCEPT ![s] = "threw"]
    /\ thrown' = thrown \cup {s}
    /\ UNCHANGED << state, exitPeriodicAction, exited, joined, stdout, pubPc, mut,
                    calls, joins, hist, nap >>

\* log, lines 161-163, when the write of the post-stop flush throws: the
\* message stays pushed, the lock_guard releases the lock, the exception
\* leaves log.
logFails(m) ==
    /\ pubPc # "threw"
    /\ mut[m].op = "log"
    /\ exited
    /\ state' = push_back(state, mut[m].msg)
    /\ sendLatestFails(state')
    /\ Leave(m)
    /\ thrown' = thrown \cup {m}
    /\ UNCHANGED << exitPeriodicAction, exited, joined, stdout, pubPc, stopPc, calls,
                    joins, stopFlushes >>

\* logEI, lines 193-195, in the same case.
logEIFails(m) ==
    /\ pubPc # "threw"
    /\ mut[m].op = "logEI"
    /\ exited
    /\ state' = push_back(state, mut[m].msg)
    /\ sendLatestFails(state')
    /\ Leave(m)
    /\ thrown' = thrown \cup {m}
    /\ UNCHANGED << exitPeriodicAction, exited, joined, stdout, pubPc, stopPc, calls,
                    joins, stopFlushes >>

\* The logger over a sink that can fail: every step of the logger as long as
\* the process lives, and the failing writes.
NextFail ==
    \/ pubPc # "threw" /\ Next
    \/ PeriodicWriteFails
    \/ PeriodicSendFails
    \/ \E s \in Stoppers : StopSendFails(s)
    \/ \E m \in Mutators : logFails(m)
    \/ \E m \in Mutators : logEIFails(m)

SpecFail == Init /\ [][NextFail]_vars

\* ------------------------------------------------------------------ fair scheduling

\* The logger with at most MaxLiveCalls mutator calls.
NextLive ==
    \/ PeriodicWrite
    \/ PeriodicAssign
    \/ PeriodicCheck
    \/ PeriodicLock
    \/ PeriodicSend
    \/ PeriodicSleep
    \/ \E s \in Stoppers : StopCheck(s)
    \/ \E s \in Stoppers : StopSet(s)
    \/ \E s \in Stoppers : StopJoin(s)
    \/ \E s \in Stoppers : StopLock(s)
    \/ \E s \in Stoppers : StopSend(s)
    \/ \E s \in Stoppers : StopMark(s)
    \/ \E m \in Mutators : calls < MaxLiveCalls /\ EnterLog(m)
    \/ \E m \in Mutators : calls < MaxLiveCalls /\ EnterLogEI(m)
    \/ \E m \in Mutators : calls < MaxLiveCalls /\ EnterStartActivity(m)
    \/ \E m \in Mutators : calls < MaxLiveCalls /\ EnterStopActivity(m)
    \/ \E m \in Mutators : calls < MaxLiveCalls /\ EnterResult(m)
    \/ \E m \in Mutators : log(m)
    \/ \E m \in Mutators : logEI(m)
    \/ \E m \in Mutators : startActivity(m)
    \/ \E m \in Mutators : stopActivity(m)
    \/ \E m \in Mutators : result(m)

\* Fair scheduling: printerThread keeps running periodicAction, and a thread
\* that is inside stop() or inside a handler keeps running it. Whether and
\* when stop() or a handler is called is left to the program.
Fairness ==
    /\ WF_vars(PeriodicWrite \/ PeriodicAssign \/ PeriodicCheck \/ PeriodicLock
                    \/ PeriodicSend \/ PeriodicSleep)
    /\ \A s \in Stoppers :
          WF_vars(StopSet(s) \/ StopJoin(s) \/ StopLock(s) \/ StopSend(s) \/ StopMark(s))
    /\ \A m \in Mutators :
          WF_vars(log(m) \/ logEI(m) \/ startActivity(m) \/ stopActivity(m) \/ result(m))

LiveSpec == Init /\ [][NextLive]_vars /\ Fairness

\* ------------------------------------------------------------------ claims

Snapshot == to_json_NixBuildState(state)

\* A producer thread is inside a handler.
InCall(m) == mut[m].op # "idle"

\* The step in which producer m returns from the handler op.
Returns(m, op) == mut[m].op = op /\ mut'[m] = Idle

\* C1: when the stop() call that performs the final flush returns, replaying
\* the transmitted baseline and then every transmitted patch, in order, yields
\* a tree equal to the snapshot of the state at that moment.
C1_ReplayEqualsSnapshotAtStopReturn ==
    [][ (\E s \in Stoppers : stopPc[s] = "mark" /\ stopPc'[s] = "returned")
            => (Replay(sink) = Snapshot)' ]_vars

\* C2: a mutator call entered once the publisher is Stopped (exited = true)
\* flushes before it returns, whichever handler it is: when it returns,
\* last_sent equals the snapshot of the state.
C2_PostStopMutatorFlushes ==
    [][ \A m \in Mutators :
            (InCall(m) /\ mut[m].stopped /\ mut'[m] = Idle) => (last_sent = Snapshot)' ]_vars

\* C3: a log or logEI call entered after Stopped hands exactly one more frame
\* to the sink before it returns; the frame is a patch, its last operation
\* appends the call's message to /messages, applying it to the value last sent
\* gives the current snapshot, whose last message is the call's, and nothing
\* is left unsent.
C3_LateMessageTransmitted ==
    [][ \A m \in Mutators :
            ((Returns(m, "log") \/ Returns(m, "logEI")) /\ mut[m].stopped) =>
                LET frame == sink'[Len(sink')]
                    msg == to_json_NixMessage(mut[m].msg)
                    replayed == json_patch(last_sent, frame.ops)
                IN  /\ Len(sink') = Len(sink) + 1
                    /\ frame.kind = "patch"
                    /\ frame.ops # <<>>
                    /\ frame.ops[Len(frame.ops)] = OpAdd(<<"messages", "-">>, msg)
                    /\ replayed = Snapshot'
                    /\ Len(replayed.v.messages.v) > Len(last_sent.v.messages.v)
                    /\ replayed.v.messages.v[Len(replayed.v.messages.v)] = msg
                    /\ last_sent' = Snapshot' ]_vars

\* C3 witness: Stopped is marked and the last frame in the sink was handed to
\* it by a mutator: a patch that appends the last message of the state.
C3_Witness ==
    /\ exited
    /\ \A m \in Mutators : ~InCall(m)
    /\ Len(sink) >= 2
    /\ sentBy[Len(sentBy)] = "mutator"
    /\ state.messages # <<>>
    /\ sink[Len(sink)].ops =
          << OpAdd(<<"messages", "-">>,
                   to_json_NixMessage(state.messages[Len(state.messages)])) >>
    /\ last_sent = Snapshot

\* C4: the first frame handed to the sink is the full value of the state, no
\* second full value follows, and every later frame is the patch
\* diff(last_sent, current state); no patch precedes the baseline.
C4_BaselineFirstThenPatches ==
    [][ sink' # sink =>
            \/ /\ sink = <<>>
               /\ sink' = << ValueFrame(Snapshot) >>
            \/ /\ sink # <<>>
               /\ sink[1].kind = "value"
               /\ sink' = Append(sink, PatchFrame(json_diff(last_sent, Snapshot', <<>>))) ]_vars

\* C4 witness: a mutator ran before the baseline was written (the baseline
\* already holds a message), stop() has run to its end, and a patch followed.
C4_Witness ==
    /\ exited
    /\ Len(sink) >= 2
    /\ sink[1].kind = "value"
    /\ sink[1].value.v.messages.v # <<>>
    /\ sink[2].kind = "patch"

\* C5: a step that observes a state equal to last_sent hands nothing to the
\* sink, and no empty patch is ever handed to it.
C5_NoTransmissionWhenUnchanged ==
    [][ /\ (last_sent = Snapshot') => sink' = sink
        /\ (sink' # sink /\ sink'[Len(sink')].kind = "patch")
                => sink'[Len(sink')].ops # <<>> ]_vars

\* C5 witness: after a patch was sent, the loop has just made a tick over a
\* state equal to last_sent, and the sink still holds just the two frames.
C5_Witness ==
    /\ pubPc = "sleep"
    /\ calls = 1
    /\ sentBy = << "printer", "printer" >>
    /\ \A m \in Mutators : ~InCall(m)
    /\ Len(sink) = 2
    /\ sink[1].value = to_json_NixBuildState([activities |-> <<>>, messages |-> <<>>])
    /\ last_sent = Snapshot
    /\ ~exitPeriodicAction

\* C6: however the calls of stop() are arranged, printerThread is joined once
\* and stop() performs one final flush.
C6_StopIdempotent == joins <= 1 /\ stopFlushes <= 1

\* C7: stop() sets the flag, then waits for the loop to exit, then flushes,
\* then marks Stopped: a caller past the flag has set it, a caller past the
\* join and every final flush find the loop exited, Stopped is marked only
\* after a final flush, and no frame sent by the loop follows one sent by stop().
C7_StopOrder ==
    /\ \A s \in Stoppers :
          /\ stopPc[s] \in {"join", "lock", "send", "mark", "threw"} => exitPeriodicAction
          /\ stopPc[s] \in {"lock", "send", "mark"} => pubPc = "done"
          /\ stopPc[s] = "mark" => stopFlushes >= 1
    /\ stopFlushes >= 1 => pubPc = "done"
    /\ exited => (exitPeriodicAction /\ pubPc = "done" /\ stopFlushes >= 1)
    /\ \A i, j \in 1..Len(sentBy) : (i < j /\ sentBy[i] = "stop") => sentBy[j] # "printer"

\* C7 witness: Stopped is marked, after a final flush that transmitted a patch.
C7_Witness ==
    /\ exited
    /\ stopFlushes = 1
    /\ calls = 1
    /\ Len(sink) = 2
    /\ sentBy = << "printer", "stop" >>
    /\ last_sent = Snapshot
    /\ sink[1].value = to_json_NixBuildState([activities |-> <<>>, messages |-> <<>>])

\* C8: at the moment stop() marks the publisher Stopped, with no mutator call
\* in flight, every update made so far has been flushed: last_sent equals the
\* snapshot of the state.
C8_NothingDroppedBeforeStopped ==
    [][ (~exited /\ exited' /\ \A m \in Mutators : ~InCall(m)) => (last_sent = Snapshot)' ]_vars

\* C9: result() for an id that is not present leaves the state as it is and
\* hands one warning line to the downstream sink (prevLogger).
C9_UnknownResultWarnsSink ==
    [][ \A m \in Mutators :
            (Returns(m, "result") /\ mut[m].act \notin DOMAIN state.activities) =>
                /\ state' = state
                /\ Len(sink') = Len(sink) + 1 ]_vars

\* C10: stopActivity(id) sets is_complete on the activity id and changes
\* nothing else of the state; for an absent id the state is unchanged; either
\* way nothing goes to the sink or to stdout, and last_sent is not touched, so
\* an absent id gives the next tick nothing to transmit.
C10_StopActivityEffect ==
    [][ \A m \in Mutators :
            Returns(m, "stopActivity") =>
                LET act == mut[m].act
                    old == state.activities
                    new == state'.activities
                IN  /\ sink' = sink /\ stdout' = stdout /\ last_sent' = last_sent
                    /\ state'.messages = state.messages
                    /\ DOMAIN new = DOMAIN old
                    /\ \A a \in DOMAIN old :
                          new[a] = IF a = act THEN [old[a] EXCEPT !.is_complete = TRUE]
                                   ELSE old[a]
                    /\ act \notin DOMAIN old => (Snapshot' = Snapshot) ]_vars

\* C10 witness: the one call made so far left the state empty and stdout
\* untouched (a stopActivity of an absent id), and the tick after it
\* transmitted nothing beyond the baseline.
C10_Witness ==
    /\ calls = 1
    /\ \A m \in Mutators : ~InCall(m)
    /\ state = [activities |-> <<>>, messages |-> <<>>]
    /\ stdout = <<>>
    /\ pubPc = "sleep"
    /\ Len(sink) = 1

\* The threads that are at a statement reading or writing state or last_sent:
\* printerThread at lines 122, 123 and inside sendLatestIfNecessary, a caller
\* of stop() inside sendLatestIfNecessary, a producer inside a handler body.
Accessing ==
    (IF pubPc \in {"write", "assign", "send"} THEN {"printer"} ELSE {})
        \cup { s \in Stoppers : stopPc[s] = "send" }
        \cup { m \in Mutators : InCall(m) }

\* C11: every read, write and comparison of state and last_sent, the loop's
\* initial transmission and initial assignment of last_sent included, is made
\* with the mutex held, so that no two threads are ever at such an access at
\* the same time.
C11_AccessesMutuallyExclusive ==
    /\ Cardinality(Accessing) <= 1
    /\ \A t \in Accessing : lock = t

\* C12: no step removes an activity id from the state, the message sequence
\* before a step is a prefix of the one after it, and the snapshot lists the
\* messages in the order they were inserted.
C12_StateOnlyGrows ==
    [][ /\ DOMAIN state.activities \subseteq DOMAIN state'.activities
        /\ Len(state.messages) <= Len(state'.messages)
        /\ SubSeq(state'.messages, 1, Len(state.messages)) = state.messages
        /\ Snapshot'.v.messages.v =
              [i \in 1..Len(state'.messages) |-> to_json_NixMessage(state'.messages[i])]
      ]_vars

\* C12 witness: two different messages were pushed one after the other and
\* the snapshot lists them in that order.
C12_Witness ==
    /\ Len(hist) = 2
    /\ Len(state.messages) = 2
    /\ state.messages[1] # state.messages[2]
    /\ Snapshot.v.messages.v[1] = to_json_NixMessage(state.messages[1])
    /\ Snapshot.v.messages.v[2] = to_json_NixMessage(state.messages[2])

\* The snapshot of the state a freshly constructed logger holds.
EmptySnapshot == to_json_NixBuildState([activities |-> <<>>, messages |-> <<>>])

\* C13: as long as no mutator has been called, the sink holds nothing before
\* the loop's first write and from then on exactly one frame, the baseline
\* with the value of the empty state: no tick and no stop() adds a frame.
C13_QuietLifetimeOneFrame ==
    calls = 0 =>
        sink = IF pubPc = "write" THEN <<>> ELSE << ValueFrame(EmptySnapshot) >>

\* C13 witness: stop() has returned after the loop ended, no mutator was ever
\* called, and the sink holds the one baseline frame.
C13_Witness ==
    /\ calls = 0
    /\ exited
    /\ pubPc = "done"
    /\ \E s \in Stoppers : stopPc[s] = "returned"
    /\ stopFlushes >= 1
    /\ Len(sink) = 1

\* The two calls made are startActivity(1, ...), run once the baseline was
\* sent and recorded in last_sent, and then stopActivity(1), and the loop did
\* not sleep a whole interval between the return of the first and the return
\* of the second.
C14_Scenario ==
    /\ calls = 2
    /\ Len(hist) = 2
    /\ hist[1].op = "startActivity" /\ hist[1].act = 1
    /\ hist[1].sent >= 1 /\ hist[1].based
    /\ hist[2].op = "stopActivity" /\ hist[2].act = 1
    /\ hist[2].nap # "full"

\* The tree doc has an activity 1 whose is_complete is true.
ShowsComplete(doc) ==
    /\ doc.t = "obj"
    /\ "activities" \in DOMAIN doc.v
    /\ "1" \in DOMAIN doc.v.activities.v
    /\ doc.v.activities.v["1"].v.is_complete = JBool(TRUE)

Phase ==
    CASE exited -> 3
      [] exitPeriodicAction -> 2
      [] pubPc = "write" -> 0
      [] OTHER -> 1

\* C15: the lifecycle only moves forward: exitPeriodicAction and exited only
\* change from false to true, the phase never decreases, exited implies
\* exitPeriodicAction and that the loop has terminated, and a loop that has
\* terminated stays terminated.
C15_LifecycleOneWay ==
    [][ /\ exitPeriodicAction => exitPeriodicAction'
        /\ exited => exited'
        /\ Phase' >= Phase
        /\ exited' => (exitPeriodicAction' /\ pubPc' = "done")
        /\ pubPc = "done" => pubPc' = "done" ]_vars

\* C15 witness: Stopped has been reached with the flag set and the loop ended,
\* and a producer call has returned since.
C15_Witness ==
    /\ exited
    /\ exitPeriodicAction
    /\ pubPc = "done"
    /\ hist # <<>>
    /\ \E s \in Stoppers : stopPc[s] = "returned"

\* C18: startActivity for an id that is not present stores an activity with
\* is_complete = false and the type, text, fields and parent given, and
\* leaves the other activities and the messages as they were.
C18_StartInsertsIncomplete ==
    [][ \A m \in Mutators :
            (Returns(m, "startActivity") /\ mut[m].act \notin DOMAIN state.activities) =>
                /\ state'.activities =
                      Put(state.activities, mut[m].act,
                          [mut[m].as EXCEPT !.is_complete = FALSE])
                /\ state'.messages = state.messages ]_vars

\* C19 as stated: startActivity for an id that is present replaces the stored
\* activity by the one given, with is_complete = false.
C19_RestartOverwrites ==
    [][ \A m \in Mutators :
            (Returns(m, "startActivity") /\ mut[m].act \in DOMAIN state.activities) =>
                state'.activities[mut[m].act] = [mut[m].as EXCEPT !.is_complete = FALSE]
      ]_vars

\* C19 amended: startActivity for an id that is present leaves the stored
\* activity, its completion flag included, and the whole state as they were.
C19_RestartKeepsStored ==
    [][ \A m \in Mutators :
            (Returns(m, "startActivity") /\ mut[m].act \in DOMAIN state.activities) =>
                state' = state ]_vars

\* C19 witness: startActivity was called twice for the same id and the state
\* holds that one activity.
C19_Witness ==
    /\ Len(hist) = 2
    /\ hist[1].op = "startActivity"
    /\ hist[2].op = "startActivity"
    /\ hist[1].act = hist[2].act
    /\ DOMAIN state.activities = { hist[1].act }

\* C20: once the baseline has been sent and last_sent assigned (no
\* transmission is half done: a patch and its assignment are one step),
\* replaying all the frames handed to the sink gives last_sent.
C20_ReplicaEqualsLastSent ==
    pubPc \notin {"write", "assign"} => Replay(sink) = last_sent

\* A step of a thread that is running: printerThread in periodicAction, a
\* thread inside stop(), a producer inside a handler. Fair scheduling lets
\* every such step happen; whether stop() or a handler is called is not one.
ThreadStep ==
    \/ PeriodicWrite \/ PeriodicAssign \/ PeriodicCheck \/ PeriodicLock
    \/ PeriodicSend \/ PeriodicSleep
    \/ \E s \in Stoppers :
          StopSet(s) \/ StopJoin(s) \/ StopLock(s) \/ StopSend(s) \/ StopMark(s)
    \/ \E m \in Mutators :
          log(m) \/ logEI(m) \/ startActivity(m) \/ stopActivity(m) \/ result(m)

\* C16: once stop() is called it returns, the loop having ended and the
\* publisher being Stopped: whenever no running thread has a step left, every
\* stop() that was called has returned, the loop has ended and exited is set.
C16_StopReturnsWhenAtRest ==
    (~ENABLED ThreadStep) =>
        /\ \A s \in Stoppers : stopPc[s] \in {"idle", "returned"}
        /\ (\E s \in Stoppers : stopPc[s] # "idle") => (pubPc = "done" /\ exited)

\* C17: when the sink fails during a flush the failure reaches the caller
\* (the loop, stop(), or the post-stop log call), which no longer holds the lock,
\* nothing was transmitted and last_sent is unchanged, and the state keeps the
\* message the caller pushed; a flush either transmits the whole patch
\* diff(last_sent, state) and advances last_sent to the state, or transmits
\* nothing and leaves last_sent alone.
C17_FlushAllOrNothing ==
    [][ /\ thrown' # thrown =>
              /\ sink' = sink
              /\ last_sent' = last_sent
              /\ lock' \notin thrown'
              /\ exited' = exited
              /\ \A s \in Stoppers : s \in thrown' \ thrown => stopPc'[s] = "threw"
              /\ "printer" \in thrown' \ thrown => pubPc' = "threw"
              /\ \A m \in Mutators :
                    m \in thrown' \ thrown =>
                        (mut'[m] = Idle /\ state' = push_back(state, mut[m].msg))
        /\ (sink' # sink /\ sink # <<>>) =>
              /\ sink' = Append(sink, PatchFrame(json_diff(last_sent, Snapshot', <<>>)))
              /\ json_patch(last_sent, sink'[Len(sink')].ops) = Snapshot'
              /\ last_sent' = Snapshot'
        /\ (last_sent' # last_sent /\ pubPc # "assign") => Len(sink') = Len(sink) + 1
      ]_vars

\* C17 witness: a log call made after Stopped failed in its flush: the
\* exception reached the producer, the message is in the state and last_sent
\* still lacks it.
C17_Witness ==
    /\ exited
    /\ \E m \in Mutators : m \in thrown /\ ~InCall(m)
    /\ state.messages # <<>>
    /\ last_sent # Snapshot
    /\ Replay(sink) = last_sent

\* The threads whose next step can hand a frame to the sink.
Transmitting ==
    (IF ENABLED ((PeriodicWrite \/ PeriodicSend) /\ sink' # sink) THEN {"printer"} ELSE {})
        \cup { s \in Stoppers : ENABLED (StopSend(s) /\ sink' # sink) }
        \cup { m \in Mutators :
                 ENABLED ((log(m) \/ logEI(m) \/ startActivity(m) \/ stopActivity(m)
                              \/ result(m)) /\ sink' # sink) }

\* C21: at most one thread is at a transmission at any time; every frame is
\* appended behind the frames sent before it and is the baseline or the patch
\* of the snapshot taken in the same step; a producer transmits only once
\* exited is set, and exited is set only after the loop has ended and stop()
\* has made its final flush.
C21_OneTransmitterInOrder ==
    [][ /\ Cardinality(Transmitting) <= 1
        /\ sink' # sink =>
              /\ Len(sink') = Len(sink) + 1
              /\ SubSeq(sink', 1, Len(sink)) = sink
              /\ sink'[Len(sink')] \in
                    { ValueFrame(Snapshot'),
                      PatchFrame(json_diff(last_sent, Snapshot', <<>>)) }
        /\ (sink' # sink /\ \E m \in Mutators : InCall(m) /\ mut'[m] = Idle) =>
              (exited /\ pubPc = "done" /\ stopFlushes >= 1)
        /\ exited' => (pubPc' = "done" /\ stopFlushes' >= 1) ]_vars

\* C21 witness: the loop, stop() and a producer have each handed a frame to
\* the sink, in that order.
C21_Witness ==
    /\ sentBy = << "printer", "stop", "mutator" >>
    /\ exited
    /\ Replay(sink) = Snapshot

\* C22: under fair scheduling, with a sink that returns, the lock is always
\* released again and every handler call that holds it returns; and when a
\* mutator call has returned and left the state different from last_sent while
\* the publisher is Running, a frame is eventually sent after that call, after
\* which last_sent equals the state the call left.
C22_ProgressUnderFairness ==
    /\ (lock # "free") ~> (lock = "free")
    /\ \A m \in Mutators : InCall(m) ~> ~InCall(m)
    /\ (hist # <<>> /\ ~exitPeriodicAction /\ last_sent # Snapshot)
          ~> (hist # <<>> /\ Len(sink) > hist[1].sent /\ last_sent = Snapshot)

====
